---- MODULE Spec2Model ----
(***************************************************************************)
(* Model of scripts/fix-waybar-vpn.py: the JSONC normalizer                *)
(* (strip_jsonc_comments, remove_trailing_commas, parse_jsonc) and the     *)
(* three patch operations run by main().                                   *)
(*                                                                         *)
(* A text is a sequence of one-character strings.  Positions named i, pos, *)
(* start or end are Python's 0-based indices; content[i] of the source is  *)
(* content[i + 1] here.                                                    *)
(***************************************************************************)
EXTENDS Integers, Sequences, FiniteSets, TLC

VARIABLES
    mode,       \* which part of the program this behaviour exercises
    content,    \* scanner / normalizer: the input text
    scan,       \* scanner: the locals of strip_jsonc_comments (i, flags, result)
    prevscan,   \* scanner: the locals before the last iteration (history)
    stage,      \* normalizer: position in parse_jsonc
    stripped,   \* normalizer: the local `stripped` of parse_jsonc
    decoded,    \* normalizer: the outcome of json.loads(stripped)
    strict,     \* normalizer: the strict-JSON text the input was derived from
    files,      \* patcher: the file system, name -> [exists, content]
    perms,      \* patcher: permission bits of the toggle script
    dirExists,  \* patcher: whether the scripts directory exists
    privileged, \* patcher: whether the program runs as root
    pc,         \* patcher: position in main()
    run,        \* patcher: number of the current run of main()
    ret,        \* patcher: return value of each operation in the current run
    log,        \* patcher: file-system events of the current run, in order
    exitStatus, \* patcher: exit statuses of the finished runs, in order
    atStart     \* patcher: the file system at the start of the current run

vars == <<mode, content, scan, prevscan, stage, stripped, decoded, strict,
          files, perms, dirExists, privileged, pc, run, ret, log, exitStatus, atStart>>

-----------------------------------------------------------------------------
(* Characters and text helpers                                             *)

QUOTE     == "\""
BACKSLASH == "\\"
NEWLINE   == "\n"
CR        == "\r"

\* With(e, F) is F(e), with e evaluated once and bound to a value
With(e, F(_)) == CHOOSE r \in {F(v) : v \in {e}} : TRUE

\* str.isspace(), which is also the regex \s of a str pattern and what
\* str.rstrip() strips: U+0009 .. U+000D, U+001C .. U+0020 and the other
\* Unicode white space.  A character with no one-character string of its
\* own is the element "U+" and its code point.
IsSpace(c) ==
    c \in {
        "\t", "\n", "U+B", "\f", "\r", "U+1C", "U+1D", "U+1E", "U+1F", " ",
        "U+85", "U+A0", "U+1680", "U+2000", "U+2001", "U+2002", "U+2003",
        "U+2004", "U+2005", "U+2006", "U+2007", "U+2008", "U+2009",
        "U+200A", "U+2028", "U+2029", "U+202F", "U+205F", "U+3000" }

\* content[start:end] with Python's clamping of slice bounds
Slice(s, start, end) ==
    LET lo == IF start < 0 THEN 0 ELSE start
        hi == IF end > Len(s) THEN Len(s) ELSE end
    IN  IF lo >= hi THEN <<>> ELSE SubSeq(s, lo + 1, hi)

\* s.startswith(pat, i)
MatchAt(s, pat, i) ==
    /\ i >= 0
    /\ i + Len(pat) <= Len(s)
    /\ \A k \in 1..Len(pat) : s[i + k] = pat[k]

\* the least j in lo..hi with P(j), where P(hi) holds: the exit point of a
\* loop  `while j < hi and not P(j): j += 1`  started at lo <= hi
Least(lo, hi, P(_)) ==
    CHOOSE j \in lo..hi : P(j) /\ \A k \in lo..(j - 1) : ~P(k)

\* the first index >= i at which the characters stop being whitespace
SkipSpace(s, i) ==
    IF i >= Len(s) THEN i
    ELSE Least(i, Len(s), LAMBDA j : j = Len(s) \/ ~IsSpace(s[j + 1]))

\* s.find(pat, from): the least index >= from where pat occurs, or -1
Find(s, pat, from) ==
    With(Len(s) - Len(pat), LAMBDA last :
        IF from > last THEN -1
        ELSE With(Least(from, last + 1, LAMBDA k : k = last + 1 \/ MatchAt(s, pat, k)),
                  LAMBDA j : IF j = last + 1 THEN -1 ELSE j))

\* pat in s
Contains(s, pat) == Find(s, pat, 0) # -1

\* s.rfind(c) for a single character c: the greatest index, or -1
RFind(s, c) ==
    IF \E i \in 0..(Len(s) - 1) : s[i + 1] = c
    THEN CHOOSE i \in 0..(Len(s) - 1) :
             s[i + 1] = c /\ \A k \in (i + 1)..(Len(s) - 1) : s[k + 1] # c
    ELSE -1

\* s.rstrip()
RStrip(s) ==
    With({n \in 1..Len(s) : ~IsSpace(s[n])}, LAMBDA keep :
        IF keep = {} THEN <<>>
        ELSE SubSeq(s, 1, CHOOSE n \in keep : \A k \in keep : k <= n))

EndsWith(s, c) == Len(s) > 0 /\ s[Len(s)] = c

\* open(path, 'r').read(): the bytes lo+1..hi of b as text, under universal
\* newlines: "\r\n" and a lone "\r" are each read as "\n"
RECURSIVE Translated(_, _, _)
Translated(b, lo, hi) ==
    IF lo >= hi THEN <<>>
    ELSE IF hi = lo + 1
    THEN IF b[hi] = CR THEN <<NEWLINE>>
         ELSE IF b[hi] = NEWLINE /\ lo > 0 /\ b[lo] = CR THEN <<>>
         ELSE <<b[hi]>>
    ELSE With((lo + hi) \div 2, LAMBDA mid :
             Translated(b, lo, mid) \o Translated(b, mid, hi))

ReadText(b) ==
    IF \A k \in 1..Len(b) : b[k] # CR THEN b ELSE Translated(b, 0, Len(b))

-----------------------------------------------------------------------------
(* strip_jsonc_comments: one iteration of the while loop (lines 49-91)     *)

ScanStart == [i |-> 0, in_string |-> FALSE, escape_next |-> FALSE, result |-> <<>>]

\* line 78-79: while i < len(content) and content[i] != '\n': i += 1
SkipLineComment(s, i) ==
    Least(i, Len(s), LAMBDA j : j = Len(s) \/ s[j + 1] = NEWLINE)

\* a search for the closing */ that starts inside the opening /*
SkipBlockComment_Overlap(s, i) ==
    IF i >= Len(s) - 1 THEN i
    ELSE Least(i - 1, Len(s) - 1,
               LAMBDA j : j = Len(s) - 1 \/ Slice(s, j, j + 2) = <<"*", "/">>)

\* a search that gives up on an unterminated comment and resumes the scan
\* right after its opening
SkipBlockComment_OpenOnly(s, i) ==
    With(Find(s, <<"*", "/">>, i), LAMBDA e : IF e = -1 THEN i - 2 ELSE e)

\* line 85-86: while i < len(content) - 1 and content[i:i+2] != '*/': i += 1
SkipBlockComment(s, i) ==
    IF i >= Len(s) - 1 THEN i
    ELSE Least(i, Len(s) - 1,
               LAMBDA j : j = Len(s) - 1 \/ Slice(s, j, j + 2) = <<"*", "/">>)

\* a scanner that takes every backslash for an escape, inside a string or not
ScanStep_EscapeAnywhere(s, st) ==
    With(s[st.i + 1], LAMBDA char :
    With(Slice(s, st.i, st.i + 2), LAMBDA two :
        IF st.escape_next
        THEN [st EXCEPT !.result = Append(@, char), !.escape_next = FALSE, !.i = @ + 1]
        ELSE IF char = BACKSLASH
        THEN [st EXCEPT !.result = Append(@, char), !.escape_next = TRUE, !.i = @ + 1]
        ELSE IF char = QUOTE
        THEN [st EXCEPT !.in_string = ~@, !.result = Append(@, char), !.i = @ + 1]
        ELSE IF st.in_string
        THEN [st EXCEPT !.result = Append(@, char), !.i = @ + 1]
        ELSE IF two = <<"/", "/">>
        THEN [st EXCEPT !.i = SkipLineComment(s, st.i)]
        ELSE IF two = <<"/", "*">>
        THEN [st EXCEPT !.i = SkipBlockComment(s, st.i + 2) + 2]
        ELSE [st EXCEPT !.result = Append(@, char), !.i = @ + 1]))

ScanStep(s, st) ==
    With(s[st.i + 1], LAMBDA char :
    With(Slice(s, st.i, st.i + 2), LAMBDA two :
        IF st.escape_next
        THEN [st EXCEPT !.result = Append(@, char), !.escape_next = FALSE, !.i = @ + 1]
        ELSE IF char = BACKSLASH /\ st.in_string
        THEN [st EXCEPT !.result = Append(@, char), !.escape_next = TRUE, !.i = @ + 1]
        ELSE IF char = QUOTE /\ ~st.escape_next
        THEN [st EXCEPT !.in_string = ~@, !.result = Append(@, char), !.i = @ + 1]
        ELSE IF st.in_string
        THEN [st EXCEPT !.result = Append(@, char), !.i = @ + 1]
        ELSE IF two = <<"/", "/">>
        THEN [st EXCEPT !.i = SkipLineComment(s, st.i)]
        ELSE IF two = <<"/", "*">>
        THEN [st EXCEPT !.i = SkipBlockComment(s, st.i + 2) + 2]
        ELSE [st EXCEPT !.result = Append(@, char), !.i = @ + 1]))

\* line 49, while i < len(content): up to n iterations from st.  Every
\* iteration advances i, so Len(s) iterations reach the loop's exit; the
\* iterations are split in halves to keep the evaluation depth logarithmic.
RECURSIVE ScanLoop(_, _, _)
ScanLoop(s, st, n) ==
    IF st.i >= Len(s) \/ n = 0 THEN st
    ELSE IF n = 1 THEN ScanStep(s, st)
    ELSE With(ScanLoop(s, st, n \div 2), LAMBDA mid : ScanLoop(s, mid, n - (n \div 2)))

strip_jsonc_comments(s) == ScanLoop(s, ScanStart, Len(s)).result

-----------------------------------------------------------------------------
(* remove_trailing_commas: re.sub(r',(\s*[}\]])', r'\1', content)          *)

\* whether the pattern ,(\s*[}\]]) matches at index i
CommaMatchAt(s, i) ==
    /\ i < Len(s)
    /\ s[i + 1] = ","
    /\ With(SkipSpace(s, i + 1), LAMBDA j : j < Len(s) /\ s[j + 1] \in {"}", "]"})

\* left-to-right, non-overlapping substitution: a match is replaced by its
\* group 1 and the search resumes after the match
SubStep(s, x) ==
    IF CommaMatchAt(s, x.i)
    THEN With(SkipSpace(s, x.i + 1), LAMBDA j :
             [i |-> j + 1, out |-> x.out \o Slice(s, x.i + 1, j + 1)])
    ELSE [i |-> x.i + 1, out |-> Append(x.out, s[x.i + 1])]

RECURSIVE SubLoop(_, _, _)
SubLoop(s, x, n) ==
    IF x.i >= Len(s) \/ n = 0 THEN x
    ELSE IF n = 1 THEN SubStep(s, x)
    ELSE With(SubLoop(s, x, n \div 2), LAMBDA mid : SubLoop(s, mid, n - (n \div 2)))

remove_trailing_commas(s) == SubLoop(s, [i |-> 0, out |-> <<>>], Len(s)).out

-----------------------------------------------------------------------------
(* json.loads (line 106): the standard decoder, on the modelled alphabet.  *)
(* A decoded value is a record of one shape for every JSON type:           *)
(*   t     "str", "num", "lit", "arr" or "obj"                             *)
(*   s     the characters of a string, or the literal text of a number or  *)
(*         of true / false / null / NaN / Infinity / -Infinity             *)
(*   items the elements of a list, or the values of a dict                 *)
(*   keys  the keys of a dict, in insertion order                          *)

JVal(t, s, items, keys) == [t |-> t, s |-> s, items |-> items, keys |-> keys]
JStr(s) == JVal("str", s, <<>>, <<>>)

JFail == [ok |-> FALSE, pos |-> 0, val |-> JVal("lit", <<>>, <<>>, <<>>)]
JOk(pos, val) == [ok |-> TRUE, pos |-> pos, val |-> val]

\* json.decoder.WHITESPACE: [ \t\n\r]*
IsJsonWs(c) == c \in {" ", "\t", "\n", "\r"}

SkipJsonWs(s, i) ==
    IF i >= Len(s) THEN i
    ELSE Least(i, Len(s), LAMBDA j : j = Len(s) \/ ~IsJsonWs(s[j + 1]))

IsDigit(c) == c \in {"0", "1", "2", "3", "4", "5", "6", "7", "8", "9"}
IsHex(c) == IsDigit(c) \/ c \in {"a", "b", "c", "d", "e", "f", "A", "B", "C", "D", "E", "F"}

\* the characters U+0000 .. U+001F, which a strict decoder rejects inside a
\* string; "\\b" stands for the one character U+0008
IsControl(c) ==
    c \in {
        "U+0", "U+1", "U+2", "U+3", "U+4", "U+5", "U+6", "U+7", "\\b",
        "\t", "\n", "U+B", "\f", "\r", "U+E", "U+F", "U+10", "U+11",
        "U+12", "U+13", "U+14", "U+15", "U+16", "U+17", "U+18", "U+19",
        "U+1A", "U+1B", "U+1C", "U+1D", "U+1E", "U+1F" }

\* json.decoder.BACKSLASH; "\\b" stands for the one character U+0008
Unescape(esc) ==
    CASE esc = "n" -> "\n"
      [] esc = "t" -> "\t"
      [] esc = "r" -> "\r"
      [] esc = "f" -> "\f"
      [] esc = "b" -> "\\b"
      [] OTHER -> esc

\* the value of a hexadecimal digit
HexVal(c) ==
    CASE c = "0" -> 0 [] c = "1" -> 1 [] c = "2" -> 2 [] c = "3" -> 3
      [] c = "4" -> 4 [] c = "5" -> 5 [] c = "6" -> 6 [] c = "7" -> 7
      [] c = "8" -> 8 [] c = "9" -> 9
      [] c \in {"a", "A"} -> 10 [] c \in {"b", "B"} -> 11
      [] c \in {"c", "C"} -> 12 [] c \in {"d", "D"} -> 13
      [] c \in {"e", "E"} -> 14 [] c \in {"f", "F"} -> 15

\* whether four hexadecimal digits follow index i
HexAt(s, i) == i + 4 <= Len(s) /\ \A k \in 1..4 : IsHex(s[i + k])

\* the code point that the four hexadecimal digits after index i write
Hex4(s, i) ==
    4096 * HexVal(s[i + 1]) + 256 * HexVal(s[i + 2])
        + 16 * HexVal(s[i + 3]) + HexVal(s[i + 4])

\* the characters U+0020 .. U+007E in order; the grave accent, which a
\* string of this module cannot hold, is written "U+60"
ASCII ==
    << " ", "!", QUOTE, "#", "$", "%", "&", "'", "(", ")", "*", "+", ",", "-", ".", "/",
       "0", "1", "2", "3", "4", "5", "6", "7", "8", "9", ":", ";", "<", "=", ">", "?",
       "@", "A", "B", "C", "D", "E", "F", "G", "H", "I", "J", "K", "L", "M", "N", "O",
       "P", "Q", "R", "S", "T", "U", "V", "W", "X", "Y", "Z", "[", BACKSLASH, "]", "^", "_",
       "U+60", "a", "b", "c", "d", "e", "f", "g", "h", "i", "j", "k", "l", "m", "n", "o",
       "p", "q", "r", "s", "t", "u", "v", "w", "x", "y", "z", "{", "|", "}", "~" >>

HexDigits ==
    <<"0", "1", "2", "3", "4", "5", "6", "7", "8", "9", "A", "B", "C", "D", "E", "F">>

RECURSIVE HexText(_)
HexText(n) ==
    IF n < 16 THEN HexDigits[n + 1]
    ELSE HexText(n \div 16) \o HexDigits[(n % 16) + 1]

\* chr(cp): the character of a code point.  A character outside U+0020 ..
\* U+007E that has no escape of its own is written "U+" and its code point.
CharOf(cp) ==
    IF cp >= 32 /\ cp <= 126 THEN ASCII[cp - 31]
    ELSE CASE cp = 8  -> Unescape("b")
           [] cp = 9  -> Unescape("t")
           [] cp = 10 -> Unescape("n")
           [] cp = 12 -> Unescape("f")
           [] cp = 13 -> Unescape("r")
           [] OTHER   -> "U+" \o HexText(cp)

\* json.decoder.scanstring from the index after the opening quote: one
\* iteration of its loop.  x.st is "run", "ok" (closing quote consumed) or "fail".
StrFail(x) == [x EXCEPT !.st = "fail"]

\* a \uXXXX escape at x.pos decodes to the character of its code point; a
\* high surrogate that a \uXXXX low surrogate follows joins it into one
\* character, and any other surrogate stands alone.  The high surrogates are
\* U+D800 .. U+DBFF (55296 .. 56319), the low ones U+DC00 .. U+DFFF
\* (56320 .. 57343).
UnicodeEscape(s, x) ==
    IF ~HexAt(s, x.pos + 2) THEN StrFail(x)
    ELSE With(Hex4(s, x.pos + 2), LAMBDA uni :
             IF /\ uni >= 55296 /\ uni <= 56319
                /\ Slice(s, x.pos + 6, x.pos + 8) = <<BACKSLASH, "u">>
             THEN IF ~HexAt(s, x.pos + 8) THEN StrFail(x)
                  ELSE With(Hex4(s, x.pos + 8), LAMBDA uni2 :
                           IF uni2 >= 56320 /\ uni2 <= 57343
                           THEN [x EXCEPT !.pos = @ + 12,
                                          !.acc = Append(@, CharOf(65536 + 1024 * (uni - 55296)
                                                                      + (uni2 - 56320)))]
                           ELSE [x EXCEPT !.pos = @ + 6, !.acc = Append(@, CharOf(uni))])
             ELSE [x EXCEPT !.pos = @ + 6, !.acc = Append(@, CharOf(uni))])

StrEscape(s, x, esc) ==
    IF esc = "u" THEN UnicodeEscape(s, x)
    ELSE IF esc \in {QUOTE, BACKSLASH, "/", "b", "f", "n", "r", "t"}
    THEN [x EXCEPT !.pos = @ + 2, !.acc = Append(@, Unescape(esc))]
    ELSE StrFail(x)

StrStep(s, x) ==
    IF x.pos >= Len(s) THEN [x EXCEPT !.st = "fail"]
    ELSE With(s[x.pos + 1], LAMBDA c :
             IF c = QUOTE THEN [x EXCEPT !.st = "ok", !.pos = @ + 1]
             ELSE IF c = BACKSLASH
             THEN IF x.pos + 1 >= Len(s) THEN [x EXCEPT !.st = "fail"]
                  ELSE StrEscape(s, x, s[x.pos + 2])
             ELSE IF IsControl(c) THEN [x EXCEPT !.st = "fail"]
             ELSE [x EXCEPT !.pos = @ + 1, !.acc = Append(@, c)])

RECURSIVE StrLoop(_, _, _)
StrLoop(s, x, n) ==
    IF x.st # "run" \/ n = 0 THEN x
    ELSE IF n = 1 THEN StrStep(s, x)
    ELSE With(StrLoop(s, x, n \div 2), LAMBDA mid : StrLoop(s, mid, n - (n \div 2)))

ScanString(s, end) ==
    With(StrLoop(s, [pos |-> end, acc |-> <<>>, st |-> "run"], Len(s) + 1), LAMBDA x :
        IF x.st = "ok" THEN JOk(x.pos, JStr(x.acc)) ELSE JFail)

SkipDigits(s, i) ==
    IF i >= Len(s) THEN i
    ELSE Least(i, Len(s), LAMBDA j : j = Len(s) \/ ~IsDigit(s[j + 1]))

\* json.scanner.NUMBER_RE  (-?(?:0|[1-9]\d*))(\.\d+)?([eE][-+]?\d+)?
\* matched at idx: the end of the match, or -1
NumberEnd(s, idx) ==
    With(IF idx < Len(s) /\ s[idx + 1] = "-" THEN idx + 1 ELSE idx, LAMBDA a :
    With(IF a < Len(s) /\ s[a + 1] = "0" THEN a + 1
         ELSE IF a < Len(s) /\ IsDigit(s[a + 1]) THEN SkipDigits(s, a)
         ELSE -1, LAMBDA b :
    With(IF b # -1 /\ b + 1 < Len(s) /\ s[b + 1] = "." /\ IsDigit(s[b + 2])
         THEN SkipDigits(s, b + 1)
         ELSE b, LAMBDA c :
    With(IF c # -1 /\ c < Len(s) /\ s[c + 1] \in {"e", "E"}
         THEN IF c + 1 < Len(s) /\ s[c + 2] \in {"-", "+"} THEN c + 2 ELSE c + 1
         ELSE -1, LAMBDA d :
        IF d # -1 /\ d < Len(s) /\ IsDigit(s[d + 1]) THEN SkipDigits(s, d) ELSE c))))

L_null     == <<"n", "u", "l", "l">>
L_true     == <<"t", "r", "u", "e">>
L_false    == <<"f", "a", "l", "s", "e">>
L_NaN      == <<"N", "a", "N">>
L_Infinity == <<"I", "n", "f", "i", "n", "i", "t", "y">>

\* dict(pairs): a repeated key keeps its first position and takes the last value
KeyIndex(keys, k) ==
    IF \E n \in 1..Len(keys) : keys[n] = k
    THEN CHOOSE n \in 1..Len(keys) : keys[n] = k
    ELSE 0

DictSet(d, k, v) ==
    With(KeyIndex(d.keys, k), LAMBDA n :
        IF n = 0 THEN [d EXCEPT !.keys = Append(@, k), !.items = Append(@, v)]
        ELSE [d EXCEPT !.items[n] = v])

\* the literal lit at idx, as a value
ScanLiteral(s, idx, lit) ==
    IF MatchAt(s, lit, idx) THEN JOk(idx + Len(lit), JVal("lit", lit, <<>>, <<>>))
    ELSE JFail

\* the literals in the order _scan_once tries them; a number is tried after
\* false and before NaN
Literals == <<L_null, L_true, L_false, L_NaN, L_Infinity, <<"-">> \o L_Infinity>>

\* sys.int_info.default_max_str_digits: int() of a text with more digits
\* raises ValueError
MaxStrDigits == 4300

\* A scalar at idx, as json.scanner.py_make_scanner._scan_once finds it: a
\* string, a literal or a number.  JFail also stands for the ValueError of
\* an integer literal that int() refuses: a number text with no fraction and
\* no exponent (a float has no such limit) and more than MaxStrDigits digits,
\* the sign not counted.
ScanScalar(s, idx) ==
    IF s[idx + 1] = QUOTE THEN ScanString(s, idx + 1)
    ELSE With({n \in 1..3 : MatchAt(s, Literals[n], idx)}, LAMBDA early :
         With(NumberEnd(s, idx), LAMBDA num_end :
         With({n \in 4..6 : MatchAt(s, Literals[n], idx)}, LAMBDA late :
             IF early # {} THEN ScanLiteral(s, idx, Literals[CHOOSE n \in early : TRUE])
             ELSE IF num_end # -1
             THEN IF /\ \A k \in idx + 1..num_end : s[k] \notin {".", "e", "E"}
                     /\ Cardinality({k \in idx + 1..num_end : IsDigit(s[k])})
                            > MaxStrDigits
                  THEN JFail
                  ELSE JOk(num_end, JVal("num", Slice(s, idx, num_end), <<>>, <<>>))
             ELSE IF late # {}
             THEN ScanLiteral(s, idx, Literals[CHOOSE n \in late : \A m \in late : n <= m])
             ELSE JFail)))

\* json.decoder.JSONObject: a key at q (its opening quote), the colon after
\* it, and the whitespace around the colon
NoKey == [ok |-> FALSE, key |-> <<>>, pos |-> 0]

ScanKey(s, q) ==
    IF ~(q < Len(s) /\ s[q + 1] = QUOTE) THEN NoKey
    ELSE With(ScanString(s, q + 1), LAMBDA k :
             IF ~k.ok THEN NoKey
             ELSE With(SkipJsonWs(s, k.pos), LAMBDA colon :
                      IF colon < Len(s) /\ s[colon + 1] = ":"
                      THEN [ok |-> TRUE, key |-> k.val.s, pos |-> SkipJsonWs(s, colon + 1)]
                      ELSE NoKey))

\* The decoder's recursion (scan_once, JSONObject, JSONArray) as a machine with
\* an explicit stack of the containers being read.  x.st is
\*   "value"  a value is expected at x.pos
\*   "got"    the value x.cur ended at x.pos and goes to the innermost container
\*   "done"   the outermost value is x.cur;   "fail"  JSONDecodeError
\* A stack frame holds the container read so far and, for a dict, the key
\* whose value is being read.
JStart(pos) ==
    [st |-> "value", pos |-> pos, stack |-> <<>>, cur |-> JFail.val]

JGot(x, r) ==
    IF r.ok THEN [x EXCEPT !.st = "got", !.pos = r.pos, !.cur = r.val]
    ELSE [x EXCEPT !.st = "fail"]

JPush(x, val, key, pos) ==
    [x EXCEPT !.st = "value", !.pos = pos,
              !.stack = Append(@, [val |-> val, key |-> key])]

EmptyObj == JVal("obj", <<>>, <<>>, <<>>)
EmptyArr == JVal("arr", <<>>, <<>>, <<>>)

\* JSONObject from the index after '{'
JObjectStart(s, x, end) ==
    IF end < Len(s) /\ s[end + 1] = "}" THEN JGot(x, JOk(end + 1, EmptyObj))
    ELSE With(ScanKey(s, end), LAMBDA k :
             IF k.ok THEN JPush(x, EmptyObj, k.key, k.pos)
             ELSE [x EXCEPT !.st = "fail"])

\* JSONArray from the index after '['
JArrayStart(s, x, end) ==
    IF end < Len(s) /\ s[end + 1] = "]" THEN JGot(x, JOk(end + 1, EmptyArr))
    ELSE JPush(x, EmptyArr, <<>>, end)

\* sys.getrecursionlimit() of the interpreter as it starts
RecursionLimit == 1000

\* the Python frames in use when the scanner runs under main(): <module>,
\* main, modify_config_jsonc, parse_jsonc, loads, decode, raw_decode
CallDepth == 7

\* scan_once at x.pos.  One more level of recursion is entered on '{' and
\* '[' (Py_EnterRecursiveCall) and on NaN, Infinity and -Infinity (the call
\* of parse_constant): when that level, the containers being read and the
\* frames in use together reach the recursion limit, RecursionError is raised
\* ("fail").  Every other value is read without a further level.
JValueStep(s, x) ==
    IF x.pos >= Len(s) THEN [x EXCEPT !.st = "fail"]
    ELSE IF /\ \/ s[x.pos + 1] \in {"{", "["}
               \/ \E n \in 4..6 : MatchAt(s, Literals[n], x.pos)
            /\ Len(x.stack) + 1 + CallDepth >= RecursionLimit
    THEN [x EXCEPT !.st = "fail"]
    ELSE With(SkipJsonWs(s, x.pos + 1), LAMBDA end :
             IF s[x.pos + 1] = "{" THEN JObjectStart(s, x, end)
             ELSE IF s[x.pos + 1] = "[" THEN JArrayStart(s, x, end)
             ELSE JGot(x, ScanScalar(s, x.pos)))

\* JSONArray after an element: store it, then read the delimiter
JArrayNext(s, x, top, rest, end) ==
    With([top.val EXCEPT !.items = Append(@, x.cur)], LAMBDA arr :
        IF s[end + 1] = "]"
        THEN [x EXCEPT !.pos = end + 1, !.cur = arr, !.stack = rest]
        ELSE IF s[end + 1] = ","
        THEN [x EXCEPT !.st = "value", !.pos = SkipJsonWs(s, end + 1),
                       !.stack = Append(rest, [top EXCEPT !.val = arr])]
        ELSE [x EXCEPT !.st = "fail"])

\* JSONObject after a value: store it under its key, then read the delimiter
\* and the next key
JObjectNext(s, x, top, rest, end) ==
    With(DictSet(top.val, top.key, x.cur), LAMBDA obj :
        IF s[end + 1] = "}"
        THEN [x EXCEPT !.pos = end + 1, !.cur = obj, !.stack = rest]
        ELSE IF s[end + 1] = ","
        THEN With(ScanKey(s, SkipJsonWs(s, end + 1)), LAMBDA k :
                 IF k.ok
                 THEN [x EXCEPT !.st = "value", !.pos = k.pos,
                                !.stack = Append(rest, [val |-> obj, key |-> k.key])]
                 ELSE [x EXCEPT !.st = "fail"])
        ELSE [x EXCEPT !.st = "fail"])

JGotStep(s, x) ==
    IF x.stack = <<>> THEN [x EXCEPT !.st = "done"]
    ELSE With(SkipJsonWs(s, x.pos), LAMBDA end :
             IF end >= Len(s) THEN [x EXCEPT !.st = "fail"]
             ELSE IF x.stack[Len(x.stack)].val.t = "arr"
             THEN JArrayNext(s, x, x.stack[Len(x.stack)],
                             SubSeq(x.stack, 1, Len(x.stack) - 1), end)
             ELSE JObjectNext(s, x, x.stack[Len(x.stack)],
                              SubSeq(x.stack, 1, Len(x.stack) - 1), end))

JStep(s, x) == IF x.st = "value" THEN JValueStep(s, x) ELSE JGotStep(s, x)

\* every step consumes a character or closes a container
RECURSIVE JLoop(_, _, _)
JLoop(s, x, n) ==
    IF x.st \in {"done", "fail"} \/ n = 0 THEN x
    ELSE IF n = 1 THEN JStep(s, x)
    ELSE With(JLoop(s, x, n \div 2), LAMBDA mid : JLoop(s, mid, n - (n \div 2)))

\* json.loads: JSONDecoder.decode; ok = FALSE stands for the exception it
\* raises: JSONDecodeError, ValueError (an integer literal of more than
\* MaxStrDigits digits) or RecursionError (containers nested too deep)
json_loads(s) ==
    With(JLoop(s, JStart(SkipJsonWs(s, 0)), 2 * Len(s) + 2), LAMBDA x :
        IF x.st = "done" /\ SkipJsonWs(s, x.pos) = Len(s)
        THEN [ok |-> TRUE, val |-> x.cur]
        ELSE [ok |-> FALSE, val |-> JFail.val])

\* parse_jsonc (lines 102-106)
parse_jsonc(s) ==
    With(strip_jsonc_comments(s), LAMBDA stripped1 :
    With(remove_trailing_commas(stripped1), LAMBDA stripped2 :
        json_loads(stripped2)))

-----------------------------------------------------------------------------
(* Literals of the patch operations                                        *)

\* the key tested at lines 125 and 130
MODULES_RIGHT ==
    << "m", "o", "d", "u", "l", "e", "s", "-", "r", "i", "g", "h", "t" >>

\* the module name tested at lines 130 and 131
CUSTOM_VPN ==
    << "c", "u", "s", "t", "o", "m", "/", "v", "p", "n" >>

\* tray_pattern (line 146) up to the \s*
TRAY_LITERAL ==
    << "\"", "g", "r", "o", "u", "p", "/", "t", "r", "a", "y", "-", "e", "x",
       "p", "a", "n", "d", "e", "r", "\"" >>

\* modules_pattern (line 156) up to the first \s*
MODULES_LITERAL ==
    << "\"", "m", "o", "d", "u", "l", "e", "s", "-", "r", "i", "g", "h", "t",
       "\"" >>

\* the text inserted at line 152
VPN_AFTER_TRAY ==
    << "\n", " ", " ", " ", " ", "\"", "c", "u", "s", "t", "o", "m", "/", "v",
       "p", "n", "\"", "," >>

\* the text inserted at line 160
VPN_AT_START ==
    << "\"", "c", "u", "s", "t", "o", "m", "/", "v", "p", "n", "\"", ",", "\n",
       " ", " ", " ", " " >>

\* vpn_module (lines 178-185)
vpn_module ==
    << "\n", " ", " ", "\"", "c", "u", "s", "t", "o", "m", "/", "v", "p", "n",
       "\"", ":", " ", "{", "\n", " ", " ", " ", " ", "\"", "f", "o", "r", "m",
       "a", "t", "\"", ":", " ", "\"", "{", "}", "\"", ",", "\n", " ", " ", " ",
       " ", "\"", "r", "e", "t", "u", "r", "n", "-", "t", "y", "p", "e", "\"",
       ":", " ", "\"", "j", "s", "o", "n", "\"", ",", "\n", " ", " ", " ", " ",
       "\"", "e", "x", "e", "c", "\"", ":", " ", "\"", "~", "/", ".", "c", "o",
       "n", "f", "i", "g", "/", "w", "a", "y", "b", "a", "r", "/", "s", "c",
       "r", "i", "p", "t", "s", "/", "v", "p", "n", "-", "t", "o", "g", "g",
       "l", "e", ".", "s", "h", "\"", ",", "\n", " ", " ", " ", " ", "\"", "o",
       "n", "-", "c", "l", "i", "c", "k", "\"", ":", " ", "\"", "~", "/", ".",
       "c", "o", "n", "f", "i", "g", "/", "w", "a", "y", "b", "a", "r", "/",
       "s", "c", "r", "i", "p", "t", "s", "/", "v", "p", "n", "-", "t", "o",
       "g", "g", "l", "e", ".", "s", "h", " ", "t", "o", "g", "g", "l", "e",
       "\"", ",", "\n", " ", " ", " ", " ", "\"", "i", "n", "t", "e", "r", "v",
       "a", "l", "\"", ":", " ", "5", "\n", " ", " ", "}" >>

\* css_block (lines 228-234)
css_block ==
    << "\n", "#", "c", "u", "s", "t", "o", "m", "-", "v", "p", "n", " ", "{",
       "\n", " ", " ", "m", "i", "n", "-", "w", "i", "d", "t", "h", ":", " ",
       "1", "2", "p", "x", ";", "\n", " ", " ", "m", "a", "r", "g", "i", "n",
       "-", "l", "e", "f", "t", ":", " ", "7", ".", "5", "p", "x", ";", "\n",
       " ", " ", "m", "a", "r", "g", "i", "n", "-", "r", "i", "g", "h", "t",
       ":", " ", "1", "7", "p", "x", ";", "\n", "}", "\n" >>

\* the substring tested at line 220
CSS_MARKER ==
    << "#", "c", "u", "s", "t", "o", "m", "-", "v", "p", "n" >>

\* get_vpn_script_content() (lines 246-262); each icon code point is one element
vpn_script_content ==
    << "#", "!", "/", "b", "i", "n", "/", "b", "a", "s", "h", "\n", "I", "N",
       "T", "E", "R", "F", "A", "C", "E", "=", "\"", "h", "o", "m", "e", "\"",
       "\n", "\n", "i", "f", " ", "i", "p", " ", "l", "i", "n", "k", " ", "s",
       "h", "o", "w", " ", "\"", "$", "I", "N", "T", "E", "R", "F", "A", "C",
       "E", "\"", " ", "2", ">", "/", "d", "e", "v", "/", "n", "u", "l", "l",
       " ", "|", " ", "g", "r", "e", "p", " ", "-", "q", " ", "\"", "s", "t",
       "a", "t", "e", " ", "U", "P", "\"", ";", " ", "t", "h", "e", "n", "\n",
       " ", " ", " ", " ", "i", "f", " ", "[", "[", " ", "\"", "$", "1", "\"",
       " ", "=", "=", " ", "\"", "t", "o", "g", "g", "l", "e", "\"", " ", "]",
       "]", ";", " ", "t", "h", "e", "n", "\n", " ", " ", " ", " ", " ", " ",
       " ", " ", "s", "u", "d", "o", " ", "w", "g", "-", "q", "u", "i", "c",
       "k", " ", "d", "o", "w", "n", " ", "\"", "$", "I", "N", "T", "E", "R",
       "F", "A", "C", "E", "\"", "\n", " ", " ", " ", " ", "e", "l", "s", "e",
       "\n", " ", " ", " ", " ", " ", " ", " ", " ", "e", "c", "h", "o", " ",
       "'", "{", "\"", "t", "e", "x", "t", "\"", ":", " ", "\"", "U+F033E",
       "\"", ",", " ", "\"", "t", "o", "o", "l", "t", "i", "p", "\"", ":", " ",
       "\"", "V", "P", "N", ":", " ", "C", "o", "n", "n", "e", "c", "t", "e",
       "d", "\"", ",", " ", "\"", "c", "l", "a", "s", "s", "\"", ":", " ", "\"",
       "c", "o", "n", "n", "e", "c", "t", "e", "d", "\"", "}", "'", "\n", " ",
       " ", " ", " ", "f", "i", "\n", "e", "l", "s", "e", "\n", " ", " ", " ",
       " ", "i", "f", " ", "[", "[", " ", "\"", "$", "1", "\"", " ", "=", "=",
       " ", "\"", "t", "o", "g", "g", "l", "e", "\"", " ", "]", "]", ";", " ",
       "t", "h", "e", "n", "\n", " ", " ", " ", " ", " ", " ", " ", " ", "s",
       "u", "d", "o", " ", "w", "g", "-", "q", "u", "i", "c", "k", " ", "u",
       "p", " ", "\"", "$", "I", "N", "T", "E", "R", "F", "A", "C", "E", "\"",
       "\n", " ", " ", " ", " ", "e", "l", "s", "e", "\n", " ", " ", " ", " ",
       " ", " ", " ", " ", "e", "c", "h", "o", " ", "'", "{", "\"", "t", "e",
       "x", "t", "\"", ":", " ", "\"", "U+F0FC6", "\"", ",", " ", "\"", "t",
       "o", "o", "l", "t", "i", "p", "\"", ":", " ", "\"", "V", "P", "N", ":",
       " ", "D", "i", "s", "c", "o", "n", "n", "e", "c", "t", "e", "d", "\"",
       ",", " ", "\"", "c", "l", "a", "s", "s", "\"", ":", " ", "\"", "d", "i",
       "s", "c", "o", "n", "n", "e", "c", "t", "e", "d", "\"", "}", "'", "\n",
       " ", " ", " ", " ", "f", "i", "\n", "f", "i", "\n" >>

-----------------------------------------------------------------------------
(* Python membership and dict access on decoded values                     *)

\* `needle in v`: "yes", "no", or "TypeError" when v is not a container
PyIn(needle, v) ==
    CASE v.t = "arr" ->
             IF \E n \in 1..Len(v.items) : v.items[n] = JStr(needle) THEN "yes" ELSE "no"
      [] v.t = "obj" ->
             IF \E n \in 1..Len(v.keys) : v.keys[n] = needle THEN "yes" ELSE "no"
      [] v.t = "str" -> IF Contains(v.s, needle) THEN "yes" ELSE "no"
      [] OTHER -> "TypeError"

\* config.get(k, []) for a dict that has the key k
DictGet(d, k) == d.items[KeyIndex(d.keys, k)]

-----------------------------------------------------------------------------
(* The file system: name -> [exists, content]                              *)

CONFIG     == "config.jsonc"
CONFIG_BAK == "config.jsonc.bak"
STYLE      == "style.css"
STYLE_BAK  == "style.css.bak"
SCRIPT     == "vpn-toggle.sh"

FileNames == {CONFIG, CONFIG_BAK, STYLE, STYLE_BAK, SCRIPT}

NoFile == [exists |-> FALSE, content |-> <<>>]
File(text) == [exists |-> TRUE, content |-> text]

\* path + ".bak" (line 33)
BakOf(path) == IF path = CONFIG THEN CONFIG_BAK ELSE STYLE_BAK

Ev(op, path) == [op |-> op, path |-> path]

\* a backup_file that copies nothing
backup_file_NoCopy(fs, path) == fs

\* backup_file (lines 31-35): shutil.copy2(path, path + ".bak")
backup_file(fs, path) == [fs EXCEPT ![BakOf(path)] = fs[path]]

\* the outcome of one operation: the file system it leaves, the file-system
\* events in program order, its return value or way of ending, the diagnostic
Outcome(fs, events, result, diag) ==
    [fs |-> fs, events |-> events, result |-> result, diag |-> diag]

\* print(..., file=sys.stderr); sys.exit(1)
Exit1(fs, events) == Outcome(fs, events, "exit", "ERROR")

\* an exception nobody catches: traceback, exit status 1
Crash(fs, events) == Outcome(fs, events, "crash", "Traceback")

-----------------------------------------------------------------------------
(* modify_config_jsonc (lines 109-204)                                     *)

\* re.search(tray_pattern, content) of lines 146-147: whether
\* ("group/tray-expander"\s*)(,) matches at index p
TrayMatchAt(s, p) ==
    /\ MatchAt(s, TRAY_LITERAL, p)
    /\ With(SkipSpace(s, p + Len(TRAY_LITERAL)), LAMBDA j : j < Len(s) /\ s[j + 1] = ",")

\* tray_match.end() of the leftmost match, or -1 when there is no match
TrayMatchEnd(s) ==
    With(Least(0, Len(s), LAMBDA q : q = Len(s) \/ TrayMatchAt(s, q)), LAMBDA p :
        IF p = Len(s) THEN -1 ELSE SkipSpace(s, p + Len(TRAY_LITERAL)) + 1)

\* re.search(modules_pattern, content) of lines 156-157: the end of a match of
\* ("modules-right"\s*:\s*\[)(\s*) at index p, or -1
ModulesMatchEndAt(s, p) ==
    IF ~MatchAt(s, MODULES_LITERAL, p) THEN -1
    ELSE With(SkipSpace(s, p + Len(MODULES_LITERAL)), LAMBDA j :
             IF ~(j < Len(s) /\ s[j + 1] = ":") THEN -1
             ELSE With(SkipSpace(s, j + 1), LAMBDA k :
                      IF ~(k < Len(s) /\ s[k + 1] = "[") THEN -1
                      ELSE SkipSpace(s, k + 1)))

\* modules_match.end() of the leftmost match, or -1
ModulesMatchEnd(s) ==
    With(Least(0, Len(s), LAMBDA q : q = Len(s) \/ ModulesMatchEndAt(s, q) # -1),
         LAMBDA p : IF p = Len(s) THEN -1 ELSE ModulesMatchEndAt(s, p))

\* content[:pos] + text + content[pos:]
InsertAt(s, pos, text) == Slice(s, 0, pos) \o text \o Slice(s, pos, Len(s))

\* an insertion that appends the entry when neither pattern matches
InsertModule_NoFail(s) == [ok |-> TRUE, content |-> s \o VPN_AT_START]

\* lines 144-164: the text with "custom/vpn" added to the array; ok = FALSE
\* when neither pattern matches (line 163)
InsertModule(s) ==
    With(TrayMatchEnd(s), LAMBDA tray_end :
        IF tray_end # -1
        THEN [ok |-> TRUE, content |-> InsertAt(s, tray_end, VPN_AFTER_TRAY)]
        ELSE With(ModulesMatchEnd(s), LAMBDA modules_end :
                 IF modules_end # -1
                 THEN [ok |-> TRUE, content |-> InsertAt(s, modules_end, VPN_AT_START)]
                 ELSE [ok |-> FALSE, content |-> s]))

\* lines 175-176: needs_comma
NeedsComma(s, last_brace_pos) ==
    ~EndsWith(RStrip(Slice(s, 0, last_brace_pos)), ",")

\* lines 167-192: the text with the module definition added; ok = FALSE when
\* the text has no closing brace (line 171)
InsertDefinition(s) ==
    With(RFind(s, "}"), LAMBDA last_brace_pos :
        IF last_brace_pos = -1 THEN [ok |-> FALSE, content |-> s]
        ELSE [ok |-> TRUE,
              content |-> InsertAt(s, last_brace_pos,
                                   (IF NeedsComma(s, last_brace_pos) THEN <<",">> ELSE <<>>)
                                       \o vpn_module \o <<NEWLINE>>)])

\* an idempotency check that never finds the document configured
AlreadyConfigured_Never(has_vpn_in_modules, has_vpn_definition) == FALSE

\* lines 129-135: both idempotency conditions hold
AlreadyConfigured(has_vpn_in_modules, has_vpn_definition) ==
    has_vpn_in_modules /\ has_vpn_definition

\* lines 137-204, after the idempotency checks; content is the text read at
\* lines 118-119, the file was opened for writing at line 195
ApplyConfigChanges(fs, has_vpn_in_modules, has_vpn_definition) ==
    With(backup_file(fs, CONFIG), LAMBDA fs1 :
    With(<<Ev("backup", CONFIG_BAK)>>, LAMBDA backup :
    With(IF has_vpn_in_modules
         THEN [ok |-> TRUE, content |-> ReadText(fs[CONFIG].content)]
         ELSE InsertModule(ReadText(fs[CONFIG].content)), LAMBDA a :
        IF ~a.ok THEN Exit1(fs1, backup)
        ELSE With(IF has_vpn_definition THEN a ELSE InsertDefinition(a.content), LAMBDA b :
                 IF ~b.ok THEN Exit1(fs1, backup)
                 ELSE Outcome([fs1 EXCEPT ![CONFIG] = File(b.content)],
                              Append(backup, Ev("write", CONFIG)), "modified", "none")))))

\* lines 124-135 and on, for a config that decoded
CheckConfig(fs, config) ==
    With(PyIn(MODULES_RIGHT, config), LAMBDA has_key :
        IF has_key = "TypeError" THEN Crash(fs, <<>>)
        ELSE IF has_key = "no" THEN Exit1(fs, <<>>)
        ELSE IF config.t # "obj" THEN Crash(fs, <<>>)
        ELSE With(PyIn(CUSTOM_VPN, DictGet(config, MODULES_RIGHT)), LAMBDA in_modules :
             With(PyIn(CUSTOM_VPN, config) = "yes", LAMBDA has_vpn_definition :
                 IF in_modules = "TypeError" THEN Crash(fs, <<>>)
                 ELSE IF AlreadyConfigured(in_modules = "yes", has_vpn_definition)
                 THEN Outcome(fs, <<>>, "unchanged", "none")
                 ELSE ApplyConfigChanges(fs, in_modules = "yes", has_vpn_definition))))

modify_config_jsonc(fs) ==
    IF ~fs[CONFIG].exists THEN Exit1(fs, <<>>)
    ELSE With(parse_jsonc(ReadText(fs[CONFIG].content)), LAMBDA parsed :
             IF ~parsed.ok THEN Crash(fs, <<>>) ELSE CheckConfig(fs, parsed.val))

-----------------------------------------------------------------------------
(* modify_style_css (lines 207-241)                                        *)

modify_style_css(fs) ==
    IF ~fs[STYLE].exists THEN Exit1(fs, <<>>)
    ELSE IF Contains(ReadText(fs[STYLE].content), CSS_MARKER)
    THEN Outcome(fs, <<>>, "unchanged", "none")
    ELSE Outcome([backup_file(fs, STYLE) EXCEPT ![STYLE] = File(fs[STYLE].content \o css_block)],
                 <<Ev("backup", STYLE_BAK), Ev("write", STYLE)>>,
                 "modified", "none")

-----------------------------------------------------------------------------
(* create_vpn_script (lines 265-296)                                       *)

\* stat.S_IXUSR | stat.S_IXGRP | stat.S_IXOTH (line 290)
ExecBits == {"ux", "gx", "ox"}

\* the bits open(path, 'w') gives a file it creates, under umask 022
CreateBits == {"ur", "uw", "gr", "or"}

\* The script's outcome also carries the directory and the permission bits.
\* The program runs as the owner of the script or as root: the owner's
\* open(path, 'r') of line 275 raises PermissionError without the bit ur,
\* the owner's open(path, 'w') of line 286 raises it without the bit uw and
\* leaves the file as it is (the write event is the open that fails); root
\* reads and writes whatever the bits are.
create_vpn_script(fs, dir, bits, root) ==
    IF fs[SCRIPT].exists /\ ~root /\ "ur" \notin bits
    THEN Crash(fs, <<>>) @@ [dirExists |-> dir, perms |-> bits]
    ELSE IF fs[SCRIPT].exists /\ ReadText(fs[SCRIPT].content) = vpn_script_content
    THEN Outcome(fs, <<>>, "unchanged", "none") @@ [dirExists |-> dir, perms |-> bits]
    ELSE IF fs[SCRIPT].exists /\ ~root /\ "uw" \notin bits
    THEN Crash(fs, (IF dir THEN <<>> ELSE <<Ev("mkdir", "scripts")>>)
                       \o <<Ev("write", SCRIPT)>>)
             @@ [dirExists |-> TRUE, perms |-> bits]
    ELSE Outcome([fs EXCEPT ![SCRIPT] = File(vpn_script_content)],
                 (IF dir THEN <<>> ELSE <<Ev("mkdir", "scripts")>>)
                     \o <<Ev("write", SCRIPT), Ev("chmod", SCRIPT)>>,
                 "modified", "none")
             @@ [dirExists |-> TRUE,
                 perms |-> (IF fs[SCRIPT].exists THEN bits ELSE CreateBits) \cup ExecBits]

-----------------------------------------------------------------------------
(* Inputs: the files main() finds                                          *)

\* "modules-left": ["group/tray-expander", "x"], 
PRE_LEFT_ANCHOR ==
    << "\"", "m", "o", "d", "u", "l", "e", "s", "-", "l", "e", "f", "t", "\"",
       ":", " ", "[", "\"", "g", "r", "o", "u", "p", "/", "t", "r", "a", "y",
       "-", "e", "x", "p", "a", "n", "d", "e", "r", "\"", ",", " ", "\"", "x",
       "\"", "]", ",", " " >>

\* // "group/tray-expander", \n
PRE_COMMENT_ANCHOR ==
    << "/", "/", " ", "\"", "g", "r", "o", "u", "p", "/", "t", "r", "a", "y",
       "-", "e", "x", "p", "a", "n", "d", "e", "r", "\"", ",", " ", "\n" >>

\* "custom/vpn": {}, 
PRE_DEFINITION ==
    << "\"", "c", "u", "s", "t", "o", "m", "/", "v", "p", "n", "\"", ":", " ",
       "{", "}", ",", " " >>

\* "modules-right": ["tray", "group/tray-expander"]
MR_ANCHOR_LAST ==
    << "\"", "m", "o", "d", "u", "l", "e", "s", "-", "r", "i", "g", "h", "t",
       "\"", ":", " ", "[", "\"", "t", "r", "a", "y", "\"", ",", " ", "\"", "g",
       "r", "o", "u", "p", "/", "t", "r", "a", "y", "-", "e", "x", "p", "a",
       "n", "d", "e", "r", "\"", "]" >>

\* "modules-right": ["group/tray-expander", "tray"]
MR_ANCHOR_FIRST ==
    << "\"", "m", "o", "d", "u", "l", "e", "s", "-", "r", "i", "g", "h", "t",
       "\"", ":", " ", "[", "\"", "g", "r", "o", "u", "p", "/", "t", "r", "a",
       "y", "-", "e", "x", "p", "a", "n", "d", "e", "r", "\"", ",", " ", "\"",
       "t", "r", "a", "y", "\"", "]" >>

\* "modules-right": ["tray"]
MR_NO_ANCHOR ==
    << "\"", "m", "o", "d", "u", "l", "e", "s", "-", "r", "i", "g", "h", "t",
       "\"", ":", " ", "[", "\"", "t", "r", "a", "y", "\"", "]" >>

\* "modules-right": ["custom/vpn", "tray"]
MR_HAS_VPN ==
    << "\"", "m", "o", "d", "u", "l", "e", "s", "-", "r", "i", "g", "h", "t",
       "\"", ":", " ", "[", "\"", "c", "u", "s", "t", "o", "m", "/", "v", "p",
       "n", "\"", ",", " ", "\"", "t", "r", "a", "y", "\"", "]" >>

\* "modules-right": /*c*/ ["tray"]
MR_COMMENT ==
    << "\"", "m", "o", "d", "u", "l", "e", "s", "-", "r", "i", "g", "h", "t",
       "\"", ":", " ", "/", "*", "c", "*", "/", " ", "[", "\"", "t", "r", "a",
       "y", "\"", "]" >>

\* "modules-right": "custom/vpn"
MR_STRING ==
    << "\"", "m", "o", "d", "u", "l", "e", "s", "-", "r", "i", "g", "h", "t",
       "\"", ":", " ", "\"", "c", "u", "s", "t", "o", "m", "/", "v", "p", "n",
       "\"" >>

\* "modules-right": 7
MR_NUMBER ==
    << "\"", "m", "o", "d", "u", "l", "e", "s", "-", "r", "i", "g", "h", "t",
       "\"", ":", " ", "7" >>

\* "modules-right": {"tray": 1}
MR_OBJECT ==
    << "\"", "m", "o", "d", "u", "l", "e", "s", "-", "r", "i", "g", "h", "t",
       "\"", ":", " ", "{", "\"", "t", "r", "a", "y", "\"", ":", " ", "1", "}" >>

\* "modules-center": ["tray"]
MR_MISSING ==
    << "\"", "m", "o", "d", "u", "l", "e", "s", "-", "c", "e", "n", "t", "e",
       "r", "\"", ":", " ", "[", "\"", "t", "r", "a", "y", "\"", "]" >>

\* ,
POST_COMMA ==
    << "," >>

\* , // c\n
POST_COMMA_COMMENT ==
    << ",", " ", "/", "/", " ", "c", "\n" >>

\* }
END_BRACE ==
    << "}" >>

\* \n}\n
END_BRACE_LINES ==
    << "\n", "}", "\n" >>

\* } // }
END_BRACE_COMMENT ==
    << "}", " ", "/", "/", " ", "}" >>

\* * { color: red; }\n
STYLE_PLAIN ==
    << "*", " ", "{", " ", "c", "o", "l", "o", "r", ":", " ", "r", "e", "d",
       ";", " ", "}", "\n" >>

\* #custom-vpn { }\n
STYLE_MARKED ==
    << "#", "c", "u", "s", "t", "o", "m", "-", "v", "p", "n", " ", "{", " ",
       "}", "\n" >>

\* #!/bin/bash\n
SCRIPT_OTHER ==
    << "#", "!", "/", "b", "i", "n", "/", "b", "a", "s", "h", "\n" >>

\* text before the modules-right entry
PRE == {<<>>, PRE_LEFT_ANCHOR, PRE_COMMENT_ANCHOR, PRE_DEFINITION}

\* the modules-right entry
MR == {MR_ANCHOR_LAST, MR_ANCHOR_FIRST, MR_NO_ANCHOR, MR_HAS_VPN, MR_COMMENT,
       MR_STRING, MR_NUMBER, MR_OBJECT, MR_MISSING}

\* text after the modules-right entry
POST == {<<>>, POST_COMMA, POST_COMMA_COMMENT}

\* the end of the document
END == {END_BRACE, END_BRACE_LINES, END_BRACE_COMMENT}

\* a document whose lines end in "\r\n":
\* {\r\n"modules-right": ["tray"]\r\n}\r\n
DOC_CRLF ==
    <<"{", CR, NEWLINE>> \o MR_NO_ANCHOR \o <<CR, NEWLINE, "}", CR, NEWLINE>>

\* a document that names the module with an escape in its list and defines it:
\* {"modules-right": ["\u0063ustom/vpn"], "custom/vpn": {}}
DOC_ESCAPED_NAME ==
    <<"{", QUOTE, "m", "o", "d", "u", "l", "e", "s", "-", "r", "i", "g", "h",
      "t", QUOTE, ":", " ", "[", QUOTE, BACKSLASH, "u", "0", "0", "6", "3",
      "u", "s", "t", "o", "m", "/", "v", "p", "n", QUOTE, "]", ",", " ",
      QUOTE, "c", "u", "s", "t", "o", "m", "/", "v", "p", "n", QUOTE, ":",
      " ", "{", "}", "}">>

\* a document that writes the key of the list with an escape:
\* {"modules-\u0072ight": ["tray"]}
DOC_ESCAPED_KEY ==
    <<"{", QUOTE, "m", "o", "d", "u", "l", "e", "s", "-", BACKSLASH, "u",
      "0", "0", "7", "2", "i", "g", "h", "t", QUOTE, ":", " ", "[", QUOTE,
      "t", "r", "a", "y", QUOTE, "]", "}">>

\* a document with a vertical tab (U+000B) between an anchor and its comma,
\* inside a comment:
\* {"modules-right": ["tray"] /* "group/tray-expander"<U+000B>, */}
DOC_SPACE_ANCHOR ==
    <<"{", QUOTE, "m", "o", "d", "u", "l", "e", "s", "-", "r", "i", "g", "h",
      "t", QUOTE, ":", " ", "[", QUOTE, "t", "r", "a", "y", QUOTE, "]", " ",
      "/", "*", " ", QUOTE, "g", "r", "o", "u", "p", "/", "t", "r", "a", "y",
      "-", "e", "x", "p", "a", "n", "d", "e", "r", QUOTE, "U+B", ",", " ",
      "*", "/", "}">>

\* a document with a no-break space (U+00A0) after a comma in a line comment
\* before the last brace:
\* {"modules-right": ["custom/vpn"] //,<U+00A0>\n}
DOC_SPACE_COMMA ==
    <<"{", QUOTE, "m", "o", "d", "u", "l", "e", "s", "-", "r", "i", "g", "h",
      "t", QUOTE, ":", " ", "[", QUOTE, "c", "u", "s", "t", "o", "m", "/",
      "v", "p", "n", QUOTE, "]", " ", "/", "/", ",", "U+A0", NEWLINE, "}">>

\* a document with a raw backspace (U+0008) inside a string:
\* {"modules-right": ["tray<U+0008>"]}
DOC_CONTROL ==
    <<"{", QUOTE, "m", "o", "d", "u", "l", "e", "s", "-", "r", "i", "g", "h",
      "t", QUOTE, ":", " ", "[", QUOTE, "t", "r", "a", "y", CharOf(8), QUOTE,
      "]", "}">>

\* a document with an integer of one digit more than int() converts:
\* {"modules-right": ["tray"], "x": 11...1}
DOC_LONG_INT ==
    <<"{">> \o MR_NO_ANCHOR \o <<",", " ", QUOTE, "x", QUOTE, ":", " ">>
        \o [k \in 1..MaxStrDigits + 1 |-> "1"] \o <<"}">>

\* a document whose innermost value v is read with as many containers open
\* as the recursion limit allows under main(), so that one more level (an
\* array [], the constant NaN) is one too many:
\* {"modules-right": ["tray"], "x": [[...[v]...]]}
DOC_DEEP(v) ==
    <<"{">> \o MR_NO_ANCHOR \o <<",", " ", QUOTE, "x", QUOTE, ":", " ">>
        \o [k \in 1..RecursionLimit - CallDepth - 2 |-> "["] \o v
        \o [k \in 1..RecursionLimit - CallDepth - 2 |-> "]"] \o <<"}">>

ConfigDocs ==
    {<<"{">> \o a \o b \o c \o d : a \in PRE, b \in MR, c \in POST, d \in END}
    \cup {DOC_CRLF, DOC_ESCAPED_NAME, DOC_ESCAPED_KEY,
          DOC_SPACE_ANCHOR, DOC_SPACE_COMMA, DOC_CONTROL}

\* the text t[lo+1..hi] saved with "\r\n" line ends
RECURSIVE WithCRLF(_, _, _)
WithCRLF(t, lo, hi) ==
    IF lo >= hi THEN <<>>
    ELSE IF hi = lo + 1
    THEN IF t[hi] = NEWLINE THEN <<CR, NEWLINE>> ELSE <<t[hi]>>
    ELSE With((lo + hi) \div 2, LAMBDA mid : WithCRLF(t, lo, mid) \o WithCRLF(t, mid, hi))

\* the generated script, saved with "\r\n" line ends
SCRIPT_CRLF == WithCRLF(vpn_script_content, 0, Len(vpn_script_content))

\* the stylesheet and the toggle script that come with a config document
\* and whether the program runs as root
Env(style, script, dir, bits, root) ==
    [style |-> style, script |-> script, dir |-> dir, bits |-> bits, root |-> root]

Envs ==
    { Env(File(STYLE_PLAIN), NoFile, FALSE, {}, FALSE),
      Env(File(STYLE_MARKED), File(vpn_script_content), TRUE,
          {"ur", "uw", "ux", "gr", "gx", "or", "ox"}, FALSE),
      Env(NoFile, NoFile, FALSE, {}, FALSE),
      Env(File(STYLE_PLAIN), File(SCRIPT_OTHER), TRUE, {"ur", "uw", "gr"}, FALSE),
      Env(File(STYLE_MARKED), NoFile, TRUE, {}, TRUE),
      Env(File(STYLE_PLAIN), File(SCRIPT_CRLF), TRUE, {"ur", "uw", "gr", "or"}, FALSE),
      Env(File(STYLE_MARKED), File(SCRIPT_OTHER), TRUE, {"ur", "gr"}, FALSE),
      Env(File(STYLE_MARKED), File(vpn_script_content), TRUE, {"uw"}, FALSE),
      Env(File(STYLE_MARKED), File(SCRIPT_OTHER), TRUE, {"ur", "gr"}, TRUE) }

MakeFs(config, env) ==
    [n \in FileNames |->
        CASE n = CONFIG -> config
          [] n = STYLE  -> env.style
          [] n = SCRIPT -> env.script
          [] OTHER      -> NoFile]

-----------------------------------------------------------------------------
(* main() (lines 299-318), run up to MaxRuns times on the same files       *)

MaxRuns == 2

Ops == {"config", "style", "script"}
NoRet == [op \in Ops |-> "none"]

Idle ==
    /\ mode = "patch"
    /\ content = <<>> /\ scan = ScanStart /\ prevscan = ScanStart
    /\ stage = "none" /\ stripped = <<>> /\ decoded = [ok |-> FALSE, val |-> JFail.val]
    /\ strict = <<>>

\* The documents on which the decoder gives up come with one environment
\* only: the run ends at line 122, before it looks at any other file.
Init ==
    /\ Idle
    /\ LET LimitDocs == {DOC_LONG_INT, DOC_DEEP(<<"[", "]">>), DOC_DEEP(L_NaN)} IN
       \E doc \in {File(d) : d \in ConfigDocs \cup LimitDocs} \cup {NoFile},
          env \in Envs :
           /\ doc \in {File(d) : d \in LimitDocs}
                  => env = Env(File(STYLE_PLAIN), NoFile, FALSE, {}, FALSE)
           /\ files = MakeFs(doc, env)
           /\ perms = env.bits
           /\ dirExists = env.dir
           /\ privileged = env.root
    /\ atStart = files
    /\ pc = "config"
    /\ run = 1
    /\ ret = NoRet
    /\ log = <<>>
    /\ exitStatus = <<>>

Frame == UNCHANGED <<mode, content, scan, prevscan, stage, stripped, decoded, strict>>

\* a main() that goes on to the next operation after a fatal error
Finish_Continue(o, op, next) ==
    /\ ret' = [ret EXCEPT ![op] = o.result]
    /\ log' = log \o o.events
    /\ files' = o.fs
    /\ pc' = next
    /\ exitStatus' = IF next = "done" THEN Append(exitStatus, 0) ELSE exitStatus

\* sys.exit(1) or an uncaught exception ends the run with status 1
Finish(o, op, next) ==
    /\ ret' = [ret EXCEPT ![op] = o.result]
    /\ log' = log \o o.events
    /\ files' = o.fs
    /\ IF o.result \in {"exit", "crash"}
       THEN pc' = "failed" /\ exitStatus' = Append(exitStatus, 1)
       ELSE /\ pc' = next
            /\ exitStatus' = IF next = "done" THEN Append(exitStatus, 0) ELSE exitStatus

\* line 307
RunConfig ==
    /\ pc = "config"
    /\ \E o \in {modify_config_jsonc(files)} : Finish(o, "config", "style")
    /\ UNCHANGED <<perms, dirExists, privileged, run, atStart>>
    /\ Frame

\* line 309
RunStyle ==
    /\ pc = "style"
    /\ \E o \in {modify_style_css(files)} : Finish(o, "style", "script")
    /\ UNCHANGED <<perms, dirExists, privileged, run, atStart>>
    /\ Frame

\* line 311
RunScript ==
    /\ pc = "script"
    /\ \E o \in {create_vpn_script(files, dirExists, perms, privileged)} :
           /\ Finish(o, "script", "done")
           /\ perms' = o.perms
           /\ dirExists' = o.dirExists
    /\ UNCHANGED <<privileged, run, atStart>>
    /\ Frame

\* the user runs the program again
Rerun ==
    /\ pc \in {"done", "failed"}
    /\ run < MaxRuns
    /\ run' = run + 1
    /\ pc' = "config"
    /\ ret' = NoRet
    /\ log' = <<>>
    /\ atStart' = files
    /\ UNCHANGED <<files, perms, dirExists, privileged, exitStatus>>
    /\ Frame

Next == RunConfig \/ RunStyle \/ RunScript \/ Rerun

Spec == Init /\ [][Next]_vars

-----------------------------------------------------------------------------
(* The scanner alone: strip_jsonc_comments run one loop iteration at a     *)
(* time on every text over ScanAlphabet of at most MaxLen characters       *)

MaxLen == 5

ScanAlphabet == {QUOTE, BACKSLASH, "/", "*", NEWLINE, "a"}

ScanTexts == UNION {[1..n -> ScanAlphabet] : n \in 0..MaxLen}

\* the patcher is not running
PatchIdle ==
    /\ files = [n \in FileNames |-> NoFile]
    /\ atStart = files
    /\ perms = {} /\ dirExists = FALSE /\ privileged = FALSE
    /\ pc = "none" /\ run = 0 /\ ret = NoRet /\ log = <<>> /\ exitStatus = <<>>

PatchFrame ==
    UNCHANGED <<files, atStart, perms, dirExists, privileged, pc, run, ret, log, exitStatus>>

ScanInit ==
    /\ mode = "scan"
    /\ content \in ScanTexts
    /\ scan = ScanStart /\ prevscan = ScanStart
    /\ stage = "none" /\ stripped = <<>> /\ decoded = [ok |-> FALSE, val |-> JFail.val]
    /\ strict = <<>>
    /\ PatchIdle

\* one iteration of the loop at line 49
ScanIter ==
    /\ scan.i < Len(content)
    /\ prevscan' = scan
    /\ scan' = ScanStep(content, scan)
    /\ UNCHANGED <<mode, content, stage, stripped, decoded, strict>>
    /\ PatchFrame

ScanNext == ScanIter

ScanSpec == ScanInit /\ [][ScanNext]_vars

\* the loop at line 49 runs without interruption: an iteration that can be
\* taken is taken
ScanLive == ScanInit /\ [][ScanNext]_vars /\ WF_vars(ScanIter)

-----------------------------------------------------------------------------
(* The normalizer: parse_jsonc (lines 102-106) on strict-JSON documents    *)
(* and on the same documents with trailing commas added                    *)

MaxItems == 2

A_NUMBER   == <<"1">>
\* "\""
A_ESCAPED  == <<QUOTE, BACKSLASH, QUOTE, QUOTE>>
\* ",]"
A_BRACKET  == <<QUOTE, ",", "]", QUOTE>>
\* "//"
A_SLASHES  == <<QUOTE, "/", "/", QUOTE>>
\* "/*,}"
A_BLOCK    == <<QUOTE, "/", "*", ",", "}", QUOTE>>

\* "\u0041"
A_UNICODE  == <<QUOTE, BACKSLASH, "u", "0", "0", "4", "1", QUOTE>>

Atoms == {A_NUMBER, A_ESCAPED, A_BRACKET, A_SLASHES, A_BLOCK, A_UNICODE}

\* a strict text d and the text dp it becomes with trailing commas
Pair(d, dp) == [d |-> d, dp |-> dp]

\* the commas that may be put before a closing bracket
Trailing == {<<>>, <<",">>, <<",", " ">>}

ElemPairs ==
    {Pair(a, a) : a \in Atoms}
    \cup {Pair(<<"[">> \o a \o <<"]">>, <<"[">> \o a \o t \o <<"]">>) :
              a \in {A_NUMBER, A_BRACKET}, t \in {<<>>, <<",">>}}
    \cup {Pair(<<"{", QUOTE, "k", QUOTE, ":">> \o a \o <<"}">>,
               <<"{", QUOTE, "k", QUOTE, ":">> \o a \o t \o <<"}">>) :
              a \in {A_NUMBER}, t \in {<<>>, <<",">>}}

Keys == <<"a", "b", "c", "d">>

\* the elements es[1..n] joined by commas, each behind its key when keyed
RECURSIVE Joined(_, _, _, _)
Joined(es, n, keyed, primed) ==
    IF n = 0 THEN <<>>
    ELSE Joined(es, n - 1, keyed, primed)
         \o (IF n > 1 THEN <<",">> ELSE <<>>)
         \o (IF keyed THEN <<QUOTE, Keys[n], QUOTE, ":">> ELSE <<>>)
         \o (IF primed THEN es[n].dp ELSE es[n].d)

Container(es, keyed, t) ==
    Pair((IF keyed THEN <<"{">> ELSE <<"[">>) \o Joined(es, Len(es), keyed, FALSE)
             \o (IF keyed THEN <<"}">> ELSE <<"]">>),
         (IF keyed THEN <<"{">> ELSE <<"[">>) \o Joined(es, Len(es), keyed, TRUE)
             \o (IF Len(es) > 0 THEN t ELSE <<>>)
             \o (IF keyed THEN <<"}">> ELSE <<"]">>))

DocPairs ==
    {Container(es, keyed, t) :
         es \in UNION {[1..n -> ElemPairs] : n \in 0..MaxItems},
         keyed \in BOOLEAN, t \in Trailing}

NormInit ==
    /\ mode = "normalize"
    /\ \E p \in DocPairs : strict = p.d /\ content = p.dp
    /\ stage = "read"
    /\ stripped = <<>>
    /\ decoded = [ok |-> FALSE, val |-> JFail.val]
    /\ scan = ScanStart /\ prevscan = ScanStart
    /\ PatchIdle

NormFrame == UNCHANGED <<mode, content, strict, scan, prevscan>>

\* line 104
Strip ==
    /\ stage = "read"
    /\ stripped' = strip_jsonc_comments(content)
    /\ stage' = "stripped"
    /\ UNCHANGED decoded /\ NormFrame /\ PatchFrame

\* line 105
Commas ==
    /\ stage = "stripped"
    /\ stripped' = remove_trailing_commas(stripped)
    /\ stage' = "normalized"
    /\ UNCHANGED decoded /\ NormFrame /\ PatchFrame

\* line 106
Decode ==
    /\ stage = "normalized"
    /\ decoded' = json_loads(stripped)
    /\ stage' = "decoded"
    /\ UNCHANGED stripped /\ NormFrame /\ PatchFrame

NormNext == Strip \/ Commas \/ Decode

NormSpec == NormInit /\ [][NormNext]_vars

-----------------------------------------------------------------------------
(* Properties of the patch sequence (specification Spec)                   *)

\* the names of the two modules the scenarios speak of
TRAY == <<"t", "r", "a", "y">>
TRAY_EXPANDER == Slice(TRAY_LITERAL, 1, Len(TRAY_LITERAL) - 1)

\* the decoded config document of a file system
ConfigOf(fs) ==
    IF fs[CONFIG].exists THEN parse_jsonc(ReadText(fs[CONFIG].content))
    ELSE [ok |-> FALSE, val |-> JFail.val]

\* the names in the modules-right array of a decoded document; <<>> with
\* isArray = FALSE when the document has no such array
ModulesRight(p) ==
    IF p.ok /\ p.val.t = "obj" /\ KeyIndex(p.val.keys, MODULES_RIGHT) # 0
       /\ DictGet(p.val, MODULES_RIGHT).t = "arr"
    THEN [isArray |-> TRUE, names |-> DictGet(p.val, MODULES_RIGHT).items]
    ELSE [isArray |-> FALSE, names |-> <<>>]

HasDefinition(p) ==
    p.ok /\ p.val.t = "obj" /\ KeyIndex(p.val.keys, CUSTOM_VPN) # 0

IndexOf(names, v) ==
    IF \E n \in 1..Len(names) : names[n] = v
    THEN Least(1, Len(names), LAMBDA n : names[n] = v)
    ELSE 0

\* the idempotency conditions of a document, on the files a run started with
ConditionsHold(doc) ==
    IF doc = CONFIG
    THEN With(ConfigOf(atStart), LAMBDA p :
             /\ ModulesRight(p).isArray
             /\ IndexOf(ModulesRight(p).names, JStr(CUSTOM_VPN)) # 0
             /\ HasDefinition(p))
    ELSE atStart[STYLE].exists /\ Contains(atStart[STYLE].content, CSS_MARKER)

EndsWithText(s, t) == Len(s) >= Len(t) /\ Slice(s, Len(s) - Len(t), Len(s)) = t

\* the positions of the run's log where op was done to path
EventsOf(op, path) == {k \in 1..Len(log) : log[k] = Ev(op, path)}

\* C1: a second full run after a successful first one changes no file,
\* reports "unchanged" for all three operations and makes no backup
C1_SecondRunChangesNothing ==
    (run = 2 /\ exitStatus[1] = 0) =>
        /\ files = atStart
        /\ \A op \in Ops : ret[op] \in {"none", "unchanged"}
        /\ EventsOf("backup", CONFIG_BAK) = {} /\ EventsOf("backup", STYLE_BAK) = {}
        /\ pc # "failed"
        /\ pc = "done" => \A op \in Ops : ret[op] = "unchanged"

\* C2: from modules-right = ["tray", "group/tray-expander"] and no custom/vpn
\* key, one run puts "custom/vpn" right after "group/tray-expander", adds the
\* definition before the final closing brace, keeps the original in the .bak
\* file and exits with status zero
C2_AnchorLastScenario ==
    With(ConfigOf(atStart), LAMBDA p :
        (/\ run = 1
         /\ ModulesRight(p).isArray
         /\ ModulesRight(p).names = <<JStr(TRAY), JStr(TRAY_EXPANDER)>>
         /\ ~HasDefinition(p)
         /\ atStart[STYLE].exists
         /\ ret["config"] # "none")
        => With(ConfigOf(files), LAMBDA q :
               /\ ret["config"] = "modified"
               /\ ModulesRight(q).names
                      = <<JStr(TRAY), JStr(TRAY_EXPANDER), JStr(CUSTOM_VPN)>>
               /\ HasDefinition(q) /\ DictGet(q.val, CUSTOM_VPN).t = "obj"
               /\ EndsWithText(RStrip(files[CONFIG].content), vpn_module \o <<NEWLINE, "}">>)
               /\ files[CONFIG_BAK] = atStart[CONFIG]
               /\ pc # "failed"
               /\ pc = "done" => exitStatus = <<0>>))

\* the names with v put right after position k (k = 0: at the start)
PutAfter(names, k, v) ==
    SubSeq(names, 1, k) \o <<v>> \o SubSeq(names, k + 1, Len(names))

\* the first position of modules-right that holds the anchor and is followed
\* by another element, or 0
AnchorIndex(names) ==
    With(IndexOf(names, JStr(TRAY_EXPANDER)), LAMBDA k :
        IF k # 0 /\ k < Len(names) THEN k ELSE 0)

\* C3: when modules-right has no "custom/vpn", the entry goes right after the
\* "group/tray-expander" element of modules-right that a comma follows, and
\* to the start of modules-right when there is no such element (stated for
\* the runs that wrote a document that still decodes)
C3_AnchorPriority ==
    With(ConfigOf(atStart), LAMBDA p :
        (/\ ModulesRight(p).isArray
         /\ IndexOf(ModulesRight(p).names, JStr(CUSTOM_VPN)) = 0
         /\ ret["config"] = "modified"
         /\ ConfigOf(files).ok)
        => ModulesRight(ConfigOf(files)).names
                  = PutAfter(ModulesRight(p).names, AnchorIndex(ModulesRight(p).names),
                             JStr(CUSTOM_VPN)))

\* the commas in the run of commas and white space that ends the text
CommasAtEnd(s) ==
    With(Least(0, Len(s), LAMBDA k :
             \A j \in k + 1..Len(s) : IsSpace(s[j]) \/ s[j] = ","), LAMBDA k :
        Cardinality({j \in k + 1..Len(s) : s[j] = ","}))

\* the document up to the module definition this run inserted
BeforeDefinition == Slice(files[CONFIG].content, 0, Find(files[CONFIG].content, vpn_module, 0))

DefinitionInserted ==
    /\ ret["config"] = "modified"
    /\ ~Contains(atStart[CONFIG].content, vpn_module)
    /\ Contains(files[CONFIG].content, vpn_module)

\* C8: the inserted definition gets a leading comma exactly when the text
\* before the last } does not end in one, so that exactly one comma separates
\* it from the preceding top-level entry
C8_CommaInsertion ==
    DefinitionInserted =>
        /\ CommasAtEnd(BeforeDefinition) = 1
        /\ CommasAtEnd(strip_jsonc_comments(BeforeDefinition)) = 1

\* C9: in one run the config and the stylesheet are each written at most
\* once, and a document whose idempotency conditions held when the run
\* started is not written and gets no .bak file
C9_AtMostOnceMutation ==
    \A doc \in {CONFIG, STYLE} :
        /\ Cardinality(EventsOf("write", doc)) <= 1
        /\ \/ /\ EventsOf("write", doc) = {}
              /\ EventsOf("backup", BakOf(doc)) = {}
              /\ files[doc] = atStart[doc]
              /\ files[BakOf(doc)] = atStart[BakOf(doc)]
           \/ ~ConditionsHold(doc)

\* both documents met their conditions and both operations have run
C9_Witness ==
    /\ ConditionsHold(CONFIG) /\ ConditionsHold(STYLE)
    /\ ret["config"] = "unchanged" /\ ret["style"] = "unchanged"
    /\ log = <<>>

\* C10: a step that writes the config or the stylesheet has, earlier in the
\* same run, made the .bak file, which holds what the document held right
\* before the write
C10_BackupPrecedesWrite ==
    [][\A doc \in {CONFIG, STYLE} :
           \A k \in (Len(log) + 1)..Len(log') :
               log'[k] = Ev("write", doc) =>
                   /\ \E j \in 1..(k - 1) : log'[j] = Ev("backup", BakOf(doc))
                   /\ files'[BakOf(doc)].exists
                   /\ files'[BakOf(doc)] = files[doc]]_vars

\* both documents were written in this run, each after its backup
C10_Witness ==
    /\ EventsOf("write", CONFIG) # {} /\ EventsOf("write", STYLE) # {}
    /\ files[CONFIG] # atStart[CONFIG] /\ files[STYLE] # atStart[STYLE]
    /\ files[CONFIG_BAK] = atStart[CONFIG] /\ files[STYLE_BAK] = atStart[STYLE]

-----------------------------------------------------------------------------
(* Properties of the scanner (specification ScanSpec)                      *)

\* the iteration from prevscan to scan began outside a string
SteppedOutsideString ==
    scan # prevscan /\ ~prevscan.in_string /\ ~prevscan.escape_next

\* the first index >= from where */ starts, or -1
BlockEnd(s, from) == Find(s, <<"*", "/">>, from)

\* C6: outside a string, // emits nothing up to the next line terminator or
\* the end of input and stops before the terminator; /* emits nothing up to
\* and including the first */ that starts after it; any other character is
\* emitted once, in order
C6_CommentRemoval ==
    SteppedOutsideString =>
        LET i0  == prevscan.i
            two == Slice(content, i0, i0 + 2)
        IN  IF two = <<"/", "/">>
            THEN /\ scan.result = prevscan.result
                 /\ ~scan.in_string /\ ~scan.escape_next
                 /\ scan.i \in i0..Len(content)
                 /\ \A j \in i0..(scan.i - 1) : content[j + 1] # NEWLINE
                 /\ scan.i < Len(content) => content[scan.i + 1] = NEWLINE
            ELSE IF two = <<"/", "*">>
            THEN /\ scan.result = prevscan.result
                 /\ ~scan.in_string /\ ~scan.escape_next
                 /\ BlockEnd(content, i0 + 2) # -1
                        => scan.i = BlockEnd(content, i0 + 2) + 2
            ELSE /\ scan.result = Append(prevscan.result, content[i0 + 1])
                 /\ scan.i = i0 + 1
                 /\ scan.in_string = (content[i0 + 1] = QUOTE)
                 /\ ~scan.escape_next

\* the scanner has skipped a closed block comment whose opening is followed
\* by a slash, as in /*/ ... */
C6_Witness ==
    /\ SteppedOutsideString
    /\ Slice(content, prevscan.i, prevscan.i + 3) = <<"/", "*", "/">>
    /\ BlockEnd(content, prevscan.i + 2) # -1
    /\ scan.i = BlockEnd(content, prevscan.i + 2) + 2
    /\ scan.result = prevscan.result

-----------------------------------------------------------------------------
(* Properties of the normalizer (specification NormSpec)                   *)

\* C4: for a strict-JSON text without comments or trailing commas, decoding
\* the normalized text gives the value that decoding the text itself gives
C4_RoundTrip ==
    (stage = "decoded" /\ content = strict) =>
        /\ json_loads(content).ok
        /\ decoded = json_loads(content)

\* the string literals of a text, as the scanner delimits them: the
\* characters between each opening quote and its closing quote
RECURSIVE StringsFrom(_, _, _)
StringsFrom(t, st, acc) ==
    IF st.i >= Len(t) THEN acc
    ELSE StringsFrom(t, ScanStep(t, st),
             IF ~st.in_string
             THEN IF t[st.i + 1] = QUOTE THEN Append(acc, <<>>) ELSE acc
             ELSE IF ~st.escape_next /\ t[st.i + 1] = QUOTE THEN acc
             ELSE [acc EXCEPT ![Len(acc)] = Append(@, t[st.i + 1])])

StringsOf(t) == StringsFrom(t, ScanStart, <<>>)

\* C5: normalization copies every character between an opening quote and
\* its closing quote, so each string literal is the same after it as before
C5_StringsSurvive ==
    stage = "normalized" => StringsOf(stripped) = StringsOf(content)

\* C7: a document with a comma put before closing brackets of its non-empty
\* arrays and objects decodes to the value of the document without them
C7_TrailingCommasIgnored ==
    (stage = "decoded" /\ content # strict) =>
        /\ json_loads(strict).ok
        /\ decoded = json_loads(strict)

-----------------------------------------------------------------------------
(* Further properties of the patch sequence (specification Spec)           *)

Min(a, b) == IF a < b THEN a ELSE b

\* the length of the longest common prefix of two texts
CommonPrefix(a, b) ==
    Least(0, Min(Len(a), Len(b)),
          LAMBDA k : k = Min(Len(a), Len(b)) \/ a[k + 1] # b[k + 1])

\* the length of the longest common suffix of two texts, at most max
CommonSuffix(a, b, max) ==
    Least(0, max, LAMBDA k : k = max \/ a[Len(a) - k] # b[Len(b) - k])

\* new is old with at most two contiguous insertions and nothing removed:
\* between the common prefix and the common suffix, what is left of old
\* occurs in what is left of new
TwoInsertions(old, new) ==
    /\ Len(new) >= Len(old)
    /\ With(CommonPrefix(old, new), LAMBDA p :
       With(CommonSuffix(old, new, Len(old) - p), LAMBDA q :
       With(Slice(old, p, Len(old) - q), LAMBDA oldMid :
       With(Slice(new, p, Len(new) - q), LAMBDA newMid :
           \E x \in 0..(Len(newMid) - Len(oldMid)) :
               Slice(newMid, x, x + Len(oldMid)) = oldMid))))

\* C11: the text Operation A writes is the original text with at most two
\* contiguous insertions and no deletion or replacement
C11_UntouchedTextPreserved ==
    EventsOf("write", CONFIG) # {} =>
        TwoInsertions(atStart[CONFIG].content, files[CONFIG].content)

\* C12: when the decoded config has no modules-right key or a modules-right
\* value that is not a list, Operation A ends with the ERROR diagnostic and
\* exit status 1, makes no backup and does not write the config
C12_ModulesRightMustBeList ==
    With(ConfigOf(atStart), LAMBDA p :
        (/\ p.ok /\ p.val.t = "obj"
         /\ ~ModulesRight(p).isArray
         /\ ret["config"] # "none")
        => /\ ret["config"] = "exit"
           /\ pc = "failed"
           /\ EventsOf("backup", CONFIG_BAK) = {}
           /\ EventsOf("write", CONFIG) = {}
           /\ files[CONFIG] = atStart[CONFIG]
           /\ files[CONFIG_BAK] = atStart[CONFIG_BAK])

\* the document each operation works on
DocOf(op) == CASE op = "config" -> CONFIG [] op = "style" -> STYLE [] OTHER -> SCRIPT

Fatal(op) == ret[op] \in {"exit", "crash"}

\* C13: the operations run in the order config, stylesheet, script; a fatal
\* condition in one ends the process with status 1, no later operation runs,
\* and what earlier operations of the run wrote stays written
C13_AbortWithoutRollback ==
    /\ ret["style"] # "none" => ret["config"] \in {"modified", "unchanged"}
    /\ ret["script"] # "none" => ret["style"] \in {"modified", "unchanged"}
    /\ \A op \in Ops :
           /\ ret[op] = "none" => files[DocOf(op)] = atStart[DocOf(op)]
           /\ Fatal(op) =>
                  /\ pc = "failed"
                  /\ Len(exitStatus) = run /\ exitStatus[run] = 1
    /\ (Fatal("style") /\ ret["config"] = "modified") =>
           /\ files[CONFIG] = modify_config_jsonc(atStart).fs[CONFIG]
           /\ files[CONFIG] # atStart[CONFIG]
           /\ files[CONFIG_BAK] = atStart[CONFIG]

\* the stylesheet was missing after the config had been rewritten
C13_Witness ==
    /\ ret["config"] = "modified" /\ ret["style"] = "exit" /\ ret["script"] = "none"
    /\ pc = "failed" /\ exitStatus[run] = 1
    /\ EventsOf("write", CONFIG) # {}
    /\ files[CONFIG] # atStart[CONFIG]

\* the raw text has neither the "group/tray-expander" + comma anchor nor a
\* textual "modules-right": [ opening
NoAnchorText(s) == TrayMatchEnd(s) = -1 /\ ModulesMatchEnd(s) = -1

AnchorNotFoundCase ==
    /\ ret["config"] # "none"
    /\ NoAnchorText(ReadText(atStart[CONFIG].content))
    /\ With(ConfigOf(atStart), LAMBDA p :
           /\ ModulesRight(p).isArray
           /\ IndexOf(ModulesRight(p).names, JStr(CUSTOM_VPN)) = 0)

\* C14: when modules-right lacks "custom/vpn" and the text has neither
\* anchor, Operation A ends the process with status 1 and the config
\* document is as it was before the run
C14_AnchorNotFound ==
    AnchorNotFoundCase =>
        /\ ret["config"] = "exit"
        /\ pc = "failed" /\ Len(exitStatus) = run /\ exitStatus[run] = 1
        /\ EventsOf("write", CONFIG) = {}
        /\ files[CONFIG] = atStart[CONFIG]

\* a comment sits between the key and the bracket, and the run has failed
C14_Witness ==
    /\ AnchorNotFoundCase
    /\ Contains(atStart[CONFIG].content, MR_COMMENT)
    /\ ret["config"] = "exit"
    /\ files[CONFIG] = atStart[CONFIG]

\* C15: a script file that holds exactly the generated text is left alone
\* (nothing written, no permission bit changed, "unchanged" reported); any
\* other state of the path ends with the generated text in the file and with
\* the previous permission bits plus execute for owner, group and other
\* (stated for the runs that may read and write the script: root, or an owner
\* with the bits ur and uw)
C15_ScriptMaterialization ==
    [][(/\ pc = "script" /\ pc' # "script"
        /\ privileged \/ {"ur", "uw"} \subseteq perms \/ ~files[SCRIPT].exists) =>
           IF files[SCRIPT] = File(vpn_script_content)
           THEN /\ ret'["script"] = "unchanged"
                /\ files' = files /\ perms' = perms /\ log' = log
           ELSE /\ ret'["script"] = "modified"
                /\ files'[SCRIPT] = File(vpn_script_content)
                /\ ExecBits \subseteq perms'
                /\ files[SCRIPT].exists => perms' = perms \cup ExecBits]_vars


-----------------------------------------------------------------------------
(* Escape tracking and termination of the scanner (specification ScanSpec) *)

\* the scanner has run at least one iteration
Stepped == scan # prevscan

\* the character the last iteration read
LastChar == content[prevscan.i + 1]

\* C16: an iteration that starts with escape_next set copies its character,
\* whatever it is, leaves in_string alone, clears the flag and advances by
\* one; escape_next is set only by an iteration that read a backslash with
\* in_string true and escape_next false, so it is never set outside a string
\* and a backslash outside a string does not set it
C16_EscapeTracking ==
    /\ (Stepped /\ prevscan.escape_next) =>
           /\ scan.result = Append(prevscan.result, LastChar)
           /\ scan.in_string = prevscan.in_string
           /\ ~scan.escape_next
           /\ scan.i = prevscan.i + 1
    /\ scan.escape_next =>
           /\ Stepped
           /\ LastChar = BACKSLASH
           /\ prevscan.in_string /\ ~prevscan.escape_next
           /\ scan.in_string
           /\ scan.result = Append(prevscan.result, BACKSLASH)
           /\ scan.i = prevscan.i + 1
    /\ (Stepped /\ LastChar = BACKSLASH /\ ~prevscan.in_string) =>
           /\ ~scan.escape_next
           /\ ~scan.in_string

\* the scanner has copied a double quote that follows a backslash inside a
\* string and is still inside the string
C16_Witness ==
    /\ Stepped
    /\ prevscan.escape_next /\ prevscan.in_string
    /\ prevscan.i > 0 /\ content[prevscan.i] = BACKSLASH
    /\ LastChar = QUOTE
    /\ scan.in_string /\ ~scan.escape_next
    /\ scan.result = Append(prevscan.result, QUOTE)

\* the loop at line 49 has exited
ScanDone == scan.i >= Len(content)

\* the last iteration met /* outside a string and no */ starts after it
UnterminatedBlock ==
    /\ SteppedOutsideString
    /\ Slice(content, prevscan.i, prevscan.i + 2) = <<"/", "*">>
    /\ BlockEnd(content, prevscan.i + 2) = -1

\* the last iteration read a backslash in a string at the last position
BackslashAtEnd ==
    /\ Stepped
    /\ prevscan.in_string /\ ~prevscan.escape_next
    /\ prevscan.i = Len(content) - 1
    /\ LastChar = BACKSLASH

\* C17: every iteration strictly increases the position and the loop exits on
\* every input; an unterminated /* takes the position to the end of the input
\* and emits nothing; a backslash in a string at the last position is copied
\* and the loop exits with the position at the end of the input
C17_ScannerTerminates ==
    /\ [][scan'.i > scan.i]_vars
    /\ <>[]ScanDone
    /\ [](UnterminatedBlock =>
             /\ ScanDone
             /\ scan.result = prevscan.result)
    /\ [](BackslashAtEnd =>
             /\ scan.i = Len(content)
             /\ scan.result = Append(prevscan.result, BACKSLASH))

\* the loop has exited on /*/ left open: the slash after the opening does not
\* close the comment
C17_Witness ==
    /\ UnterminatedBlock
    /\ Slice(content, prevscan.i, Len(content)) = <<"/", "*", "/">>
    /\ ScanDone
    /\ scan.result = prevscan.result

-----------------------------------------------------------------------------
(* Post-conditions of the patcher (specification Spec)                     *)

\* how many elements of names equal v
CountOf(names, v) == Cardinality({n \in 1..Len(names) : names[n] = v})

\* C18: whenever the run has written a config document whose modules-right
\* was a list, the written text decodes, its modules-right list holds
\* "custom/vpn" exactly once and its top-level "custom/vpn" key holds an
\* object
C18_WrittenConfigSatisfied ==
    (EventsOf("write", CONFIG) # {} /\ ModulesRight(ConfigOf(atStart)).isArray) =>
        With(ConfigOf(files), LAMBDA p :
            /\ p.ok
            /\ ModulesRight(p).isArray
            /\ CountOf(ModulesRight(p).names, JStr(CUSTOM_VPN)) = 1
            /\ HasDefinition(p)
            /\ DictGet(p.val, CUSTOM_VPN).t = "obj")

\* the backups of the run's log that no later write of their document follows
OrphanBackups ==
    {k \in 1..Len(log) :
        \E doc \in {CONFIG, STYLE} :
            /\ log[k] = Ev("backup", BakOf(doc))
            /\ \A j \in k + 1..Len(log) : log[j] # Ev("write", doc)}

\* C19: when a run has ended, normally or in a fatal error, every .bak file
\* it created is followed in its log by a write of the corresponding document
\* (stated for the runs that started with a list at modules-right)
C19_NoOrphanBackup ==
    (pc \in {"done", "failed"} /\ ModulesRight(ConfigOf(atStart)).isArray)
        => OrphanBackups = {}

====
